---------------------------- MODULE Spec2Model ----------------------------
(***************************************************************************)
(* Model of the operator binary of prometheus-engine:                      *)
(*   - pkg/operator/admission.go: the admission webhook handler returned   *)
(*     by serveAdmission, the validators admitPodMonitoring and            *)
(*     admitServiceMonitoring, and toAdmissionResponse;                    *)
(*   - cmd/operator/main.go: bootstrap, the three actors added to the      *)
(*     run.Group (termination handler, admission server, operator loop),   *)
(*     g.Run and the process exit status.                                  *)
(* Errors are modelled by their text, a sequence of strings whose          *)
(* concatenation is err.Error().                                           *)
(***************************************************************************)
EXTENDS Naturals, Sequences, FiniteSets, TLC

VARIABLES
    \* ---- admission handler (one request in flight) ----
    hpc,        \* position of the handler closure
    admitKind,  \* which admitFn the closure is bound to: "pod" or "service"
    body,       \* r.Body: what the client sent
    data,       \* result of ioutil.ReadAll
    req,        \* var req v1.AdmissionReview
    resp,       \* var resp v1.AdmissionReview
    respBytes,  \* result of json.Marshal(resp)
    written,    \* what w.Write put on the wire (NoBytes: nothing)
    log,        \* records written to a.logger during the request
    calls,      \* calls made by the handler and the validator, in order
    \* ---- main ----
    mpc,        \* position of main()
    logLevel,   \* value of the --log-level flag
    exitCode,   \* process exit status (NoExit while running)
    actor,      \* state of each actor's execute goroutine
    errorsCh,   \* every <<actor, value>> sent to the group's completion channel,
                \* in the order sent; g.Run has taken the first `received` of them
    termSig,    \* a signal is pending on the term channel
    cancelCloses, \* number of close(cancel) calls on the watcher's channel
    ctxDone,    \* ctxDone[a]: the context of actor a was cancelled
    interrupts, \* interrupts[a]: sequence of the values passed to a's interrupt
    first,      \* actor whose execute returned first (NoActor before)
    received,   \* number of values g.Run has taken from the completion channel
    runErr,     \* value received first from the completion channel / g.Run result
    \* ---- admission handler, requests served concurrently ----
    conc,       \* conc[c]: the handler invocation on connection c (its position,
                \* request and the locals data and respBytes)
    cells       \* cells[i]: storage of one pair of variables req, resp

hvars == <<hpc, admitKind, body, data, req, resp, respBytes, written, log, calls>>
mvars == <<mpc, logLevel, exitCode, actor, errorsCh, termSig, cancelCloses,
           ctxDone, interrupts, first, received, runErr>>
cvars == <<conc, cells>>
vars == <<hpc, admitKind, body, data, req, resp, respBytes, written, log, calls,
          mpc, logLevel, exitCode, actor, errorsCh, termSig, cancelCloses,
          ctxDone, interrupts, first, received, runErr, conc, cells>>

-----------------------------------------------------------------------------
(* Bounds *)

\* longest list of label mappings in TargetLabels.FromPod / FromService
MaxRules == 2

\* number of connections the server handles requests on at the same time
MaxConcurrent == 2

-----------------------------------------------------------------------------
(* Values *)

\* a nil pointer / nil error / nil slice
Nil == [nil |-> TRUE]

APIVersions == {"admission.k8s.io/v1", "admission.k8s.io/v1beta1"}
Kinds == {"AdmissionReview"}
UIDs == {"uid-1", "uid-2"}

GVR(g, v, r) == [Group |-> g, Version |-> v, Resource |-> r]

PodMonitoringResource == GVR("monitoring.googleapis.com", "v1alpha1", "podmonitorings")

ServiceMonitoringResource == GVR("monitoring.googleapis.com", "v1alpha1", "servicemonitorings")

OtherResource == GVR("", "v1", "pods")

Resources == {PodMonitoringResource, ServiceMonitoringResource, OtherResource}

\* schema.GroupVersionResource.String(), as %v prints it
GVRString(r) == <<r.Group, "/", r.Version, ", Resource=", r.Resource>>

\* label mappings a resource may declare: two that compile, two that do not
LabelMappings ==
    { [From |-> "app",     To |-> ""],
      [From |-> "app",     To |-> "tier"],
      [From |-> "app",     To |-> "job"],
      [From |-> "bad key", To |-> ""] }

SeqsUpTo(S, n) == UNION { [1..k -> S] : k \in 0..n }

RuleLists == SeqsUpTo(LabelMappings, MaxRules)

\* ar.Request.Object.Raw: bytes that do not unmarshal, or a serialized
\* monitoring resource with its spec.targetLabels
Malformed == [malformed |-> TRUE]

Payloads == {Malformed} \cup [FromPod : RuleLists, FromService : RuleLists]

AdmissionRequests == [UID : UIDs, Resource : Resources, Object : Payloads]

\* request bodies: a body whose read fails, bytes that are no admission
\* envelope, an envelope without a nested request, a full envelope
Bodies ==
    { [shape |-> "unreadable"], [shape |-> "garbage"] }
    \cup [shape : {"envelope"}, APIVersion : APIVersions, Kind : Kinds,
          Request : {Nil} \cup AdmissionRequests]

\* zero value of v1.AdmissionReview
ZeroReview == [APIVersion |-> "", Kind |-> "", Request |-> Nil, Response |-> Nil]

StatusFailure == "Failure"

-----------------------------------------------------------------------------
(* Errors *)

Wrap(err, msg) == <<msg, ": ">> \o err

ErrRead == <<"unexpected EOF">>

ErrDecode == <<"couldn't get version/kind; json parse error">>

ErrUnmarshal == <<"invalid character">>

ErrWrite == <<"write: broken pipe">>

NoErr == <<>>

NoBytes == <<>>

-----------------------------------------------------------------------------
(* pkg/operator: label mapping validation *)

podLabelPrefix == "__meta_kubernetes_pod_label_"

serviceLabelPrefix == "__meta_kubernetes_service_label_"

\* why a single mapping does not compile into a relabeling rule (NoErr: it does)
MappingError(m) ==
    IF m.To = "job"
    THEN <<"relabel ", m.From, " to ", m.To, " conflicts with target schema">>
    ELSE IF m.From = "bad key"
    THEN <<"relabel ", m.From, " to ", m.To, ": invalid label name">>
    ELSE NoErr

\* labelMappingRelabelConfigs going on after an invalid mapping and reporting
\* the last one
labelMappingRelabelConfigs_LastInvalid(mappings, prefix) ==
    LET bad == { i \in 1..Len(mappings) : MappingError(mappings[i]) # NoErr }
    IN  IF bad = {}
        THEN NoErr
        ELSE MappingError(mappings[CHOOSE i \in bad : \A j \in bad : i >= j])

\* labelMappingRelabelConfigs(mappings, prefix): the mappings are compiled in
\* declaration order and the first that does not compile is the error
labelMappingRelabelConfigs(mappings, prefix) ==
    LET bad == { i \in 1..Len(mappings) : MappingError(mappings[i]) # NoErr }
    IN  IF bad = {}
        THEN NoErr
        ELSE MappingError(mappings[CHOOSE i \in bad : \A j \in bad : i <= j])

-----------------------------------------------------------------------------
(* pkg/operator/admission.go *)

\* json.Unmarshal(ar.Request.Object.Raw, pm)
Unmarshal(raw) ==
    IF raw = Malformed
    THEN [err |-> ErrUnmarshal, FromPod |-> <<>>, FromService |-> <<>>]
    ELSE [err |-> NoErr, FromPod |-> raw.FromPod, FromService |-> raw.FromService]

\* toAdmissionResponse answering with a fixed text instead of the error's
toAdmissionResponse_FixedText(err) ==
    [UID |-> "", Allowed |-> FALSE,
     Result |-> [Status |-> StatusFailure, Message |-> <<"admission denied">>]]

toAdmissionResponse(err) ==
    [UID |-> "", Allowed |-> FALSE,
     Result |-> [Status |-> StatusFailure, Message |-> err]]

Allowed == [UID |-> "", Allowed |-> TRUE, Result |-> Nil]

\* outcome of a validator: the decision, the error, the calls it made, and
\* whether it panicked (nil pointer dereference)
Outcome(ar, err, made) == [ar |-> ar, err |-> err, calls |-> made, panicked |-> FALSE]

Panicked == [ar |-> Nil, err |-> NoErr, calls |-> <<>>, panicked |-> TRUE]

ErrResource(expected, got) ==
    <<"expected resource to be ">> \o GVRString(expected)
        \o <<", but received ">> \o GVRString(got)

\* admitPodMonitoring with the payload unmarshalled before the resource check
admitPodMonitoring_UnmarshalFirst(ar) ==
    IF ar.Request = Nil
    THEN Panicked
    ELSE LET pm == Unmarshal(ar.Request.Object) IN
    IF ar.Request.Resource # PodMonitoringResource
    THEN Outcome(Nil, ErrResource(PodMonitoringResource, ar.Request.Resource),
                 <<"json.Unmarshal">>)
    ELSE IF pm.err # NoErr
    THEN Outcome(Nil, Wrap(pm.err, "unmarshalling admission request to podmonitoring"),
                 <<"json.Unmarshal">>)
    ELSE LET e == labelMappingRelabelConfigs(pm.FromPod, podLabelPrefix) IN
    IF e # NoErr
    THEN Outcome(Nil, Wrap(e, "checking label mappings"),
                 <<"json.Unmarshal", "labelMappingRelabelConfigs(FromPod)">>)
    ELSE Outcome(Allowed, NoErr,
                 <<"json.Unmarshal", "labelMappingRelabelConfigs(FromPod)">>)

\* admitPodMonitoring checking the service-sourced mappings as well
admitPodMonitoring_AlsoService(ar) ==
    IF ar.Request = Nil
    THEN Panicked
    ELSE IF ar.Request.Resource # PodMonitoringResource
    THEN Outcome(Nil, ErrResource(PodMonitoringResource, ar.Request.Resource), <<>>)
    ELSE LET pm == Unmarshal(ar.Request.Object) IN
    IF pm.err # NoErr
    THEN Outcome(Nil, Wrap(pm.err, "unmarshalling admission request to podmonitoring"),
                 <<"json.Unmarshal">>)
    ELSE LET e == labelMappingRelabelConfigs(pm.FromPod \o pm.FromService, podLabelPrefix) IN
    IF e # NoErr
    THEN Outcome(Nil, Wrap(e, "checking label mappings"),
                 <<"json.Unmarshal", "labelMappingRelabelConfigs(FromPod)">>)
    ELSE Outcome(Allowed, NoErr,
                 <<"json.Unmarshal", "labelMappingRelabelConfigs(FromPod)">>)

\* admitPodMonitoring returning a nil decision with a nil error on success
admitPodMonitoring_NilNil(ar) ==
    IF ar.Request = Nil
    THEN Panicked
    ELSE IF ar.Request.Resource # PodMonitoringResource
    THEN Outcome(Nil, ErrResource(PodMonitoringResource, ar.Request.Resource), <<>>)
    ELSE LET pm == Unmarshal(ar.Request.Object) IN
    IF pm.err # NoErr
    THEN Outcome(Nil, Wrap(pm.err, "unmarshalling admission request to podmonitoring"),
                 <<"json.Unmarshal">>)
    ELSE LET e == labelMappingRelabelConfigs(pm.FromPod, podLabelPrefix) IN
    IF e # NoErr
    THEN Outcome(Nil, Wrap(e, "checking label mappings"),
                 <<"json.Unmarshal", "labelMappingRelabelConfigs(FromPod)">>)
    ELSE Outcome(Nil, NoErr,
                 <<"json.Unmarshal", "labelMappingRelabelConfigs(FromPod)">>)

admitPodMonitoring(ar) ==
    IF ar.Request = Nil
    THEN Panicked
    ELSE IF ar.Request.Resource # PodMonitoringResource
    THEN Outcome(Nil, ErrResource(PodMonitoringResource, ar.Request.Resource), <<>>)
    ELSE LET pm == Unmarshal(ar.Request.Object) IN
    IF pm.err # NoErr
    THEN Outcome(Nil, Wrap(pm.err, "unmarshalling admission request to podmonitoring"),
                 <<"json.Unmarshal">>)
    ELSE LET e == labelMappingRelabelConfigs(pm.FromPod, podLabelPrefix) IN
    IF e # NoErr
    THEN Outcome(Nil, Wrap(e, "checking label mappings"),
                 <<"json.Unmarshal", "labelMappingRelabelConfigs(FromPod)">>)
    ELSE Outcome(Allowed, NoErr,
                 <<"json.Unmarshal", "labelMappingRelabelConfigs(FromPod)">>)

\* admitServiceMonitoring with the check of the service-sourced mappings left out
admitServiceMonitoring_PodOnly(ar) ==
    IF ar.Request = Nil
    THEN Panicked
    ELSE IF ar.Request.Resource # ServiceMonitoringResource
    THEN Outcome(Nil, ErrResource(ServiceMonitoringResource, ar.Request.Resource), <<>>)
    ELSE LET sm == Unmarshal(ar.Request.Object) IN
    IF sm.err # NoErr
    THEN Outcome(Nil, Wrap(sm.err, "unmarshalling admission request to servicemonitoring"),
                 <<"json.Unmarshal">>)
    ELSE LET e == labelMappingRelabelConfigs(sm.FromPod, podLabelPrefix) IN
    IF e # NoErr
    THEN Outcome(Nil, Wrap(e, "checking pod label mappings"),
                 <<"json.Unmarshal", "labelMappingRelabelConfigs(FromPod)">>)
    ELSE Outcome(Allowed, NoErr,
                 <<"json.Unmarshal", "labelMappingRelabelConfigs(FromPod)">>)

\* admitServiceMonitoring checking the service-sourced mappings before the
\* pod-sourced ones
admitServiceMonitoring_ServiceFirst(ar) ==
    IF ar.Request = Nil
    THEN Panicked
    ELSE IF ar.Request.Resource # ServiceMonitoringResource
    THEN Outcome(Nil, ErrResource(ServiceMonitoringResource, ar.Request.Resource), <<>>)
    ELSE LET sm == Unmarshal(ar.Request.Object) IN
    IF sm.err # NoErr
    THEN Outcome(Nil, Wrap(sm.err, "unmarshalling admission request to servicemonitoring"),
                 <<"json.Unmarshal">>)
    ELSE LET f == labelMappingRelabelConfigs(sm.FromService, serviceLabelPrefix) IN
    IF f # NoErr
    THEN Outcome(Nil, Wrap(f, "checking service label mappings"),
                 <<"json.Unmarshal", "labelMappingRelabelConfigs(FromService)">>)
    ELSE LET e == labelMappingRelabelConfigs(sm.FromPod, podLabelPrefix) IN
    IF e # NoErr
    THEN Outcome(Nil, Wrap(e, "checking pod label mappings"),
                 <<"json.Unmarshal", "labelMappingRelabelConfigs(FromService)",
                   "labelMappingRelabelConfigs(FromPod)">>)
    ELSE Outcome(Allowed, NoErr,
                 <<"json.Unmarshal", "labelMappingRelabelConfigs(FromService)",
                   "labelMappingRelabelConfigs(FromPod)">>)

admitServiceMonitoring(ar) ==
    IF ar.Request = Nil
    THEN Panicked
    ELSE IF ar.Request.Resource # ServiceMonitoringResource
    THEN Outcome(Nil, ErrResource(ServiceMonitoringResource, ar.Request.Resource), <<>>)
    ELSE LET sm == Unmarshal(ar.Request.Object) IN
    IF sm.err # NoErr
    THEN Outcome(Nil, Wrap(sm.err, "unmarshalling admission request to servicemonitoring"),
                 <<"json.Unmarshal">>)
    ELSE LET e == labelMappingRelabelConfigs(sm.FromPod, podLabelPrefix) IN
    IF e # NoErr
    THEN Outcome(Nil, Wrap(e, "checking pod label mappings"),
                 <<"json.Unmarshal", "labelMappingRelabelConfigs(FromPod)">>)
    ELSE LET f == labelMappingRelabelConfigs(sm.FromService, serviceLabelPrefix) IN
    IF f # NoErr
    THEN Outcome(Nil, Wrap(f, "checking service label mappings"),
                 <<"json.Unmarshal", "labelMappingRelabelConfigs(FromPod)",
                   "labelMappingRelabelConfigs(FromService)">>)
    ELSE Outcome(Allowed, NoErr,
                 <<"json.Unmarshal", "labelMappingRelabelConfigs(FromPod)",
                   "labelMappingRelabelConfigs(FromService)">>)

\* the admitFn the handler closure was built with
admit(kind, ar) ==
    IF kind = "pod" THEN admitPodMonitoring(ar) ELSE admitServiceMonitoring(ar)

\* a.decoder.Decode(data, nil, &req): fills req from bytes that hold an
\* admission envelope, fails on anything else and leaves req untouched
Decode(bytes, into) ==
    IF bytes.shape = "envelope"
    THEN [err |-> NoErr,
          into |-> [into EXCEPT !.APIVersion = bytes.APIVersion,
                                !.Kind = bytes.Kind,
                                !.Request = bytes.Request]]
    ELSE [err |-> ErrDecode, into |-> into]

\* echoIdentity with the copy of the kind forgotten
echoIdentity_NoKind(rq, rs) ==
    IF rq.Request # Nil /\ rs.Response # Nil
    THEN [panicked |-> FALSE,
          resp |-> [rs EXCEPT !.APIVersion = rq.APIVersion,
                              !.Response = [rs.Response EXCEPT !.UID = rq.Request.UID]]]
    ELSE [panicked |-> rq.Request # Nil, resp |-> rs]

\* "Return the same API, Kind, and UID as long as incoming request data was
\* decoded properly": the review after the copy; writing the UID through a
\* nil resp.Response panics
echoIdentity(rq, rs) ==
    IF rq.Request # Nil
    THEN IF rs.Response = Nil
         THEN [panicked |-> TRUE, resp |-> [rs EXCEPT !.APIVersion = rq.APIVersion,
                                                      !.Kind = rq.Kind]]
         ELSE [panicked |-> FALSE,
               resp |-> [rs EXCEPT !.APIVersion = rq.APIVersion,
                                   !.Kind = rq.Kind,
                                   !.Response = [rs.Response EXCEPT !.UID = rq.Request.UID]]]
    ELSE [panicked |-> FALSE, resp |-> rs]

\* A JSON object is the sequence of its <<key, value>> members.
\* json.Marshal of a metav1.Status: message is omitempty
MarshalStatus(st) ==
    << <<"metadata", <<>>>>, <<"status", st.Status>> >>
        \o (IF st.Message = NoErr THEN <<>> ELSE << <<"message", st.Message>> >>)

\* json.Marshal of a v1.AdmissionResponse: uid and allowed always, status omitempty
MarshalResponse(r) ==
    << <<"uid", r.UID>>, <<"allowed", r.Allowed>> >>
        \o (IF r.Result = Nil THEN <<>> ELSE << <<"status", MarshalStatus(r.Result)>> >>)

\* json.Marshal(resp): kind, apiVersion, request and response are all omitempty
Marshal(rv) ==
    (IF rv.Kind = "" THEN <<>> ELSE << <<"kind", rv.Kind>> >>)
        \o (IF rv.APIVersion = "" THEN <<>> ELSE << <<"apiVersion", rv.APIVersion>> >>)
        \o (IF rv.Response = Nil THEN <<>>
            ELSE << <<"response", MarshalResponse(rv.Response)>> >>)

LogRecord(lvl, msg, err) == [level |-> lvl, msg |-> msg, err |-> err]

\* the server calls the handler closure for a request on one of the two paths
ServeHTTP ==
    /\ hpc = "idle"
    /\ \E k \in {"pod", "service"}, b \in Bodies :
        /\ admitKind' = k
        /\ body' = b
    /\ data' = Nil
    /\ req' = ZeroReview
    /\ resp' = ZeroReview
    /\ respBytes' = NoBytes
    /\ written' = NoBytes
    /\ log' = <<LogRecord("debug", "webhook called", NoErr)>>
    /\ calls' = <<>>
    /\ hpc' = "read"
    /\ UNCHANGED <<mvars, cvars>>

\* ReadBody with the decoder still run after a failed read
ReadBody_FallsThrough ==
    /\ hpc = "read"
    /\ calls' = Append(calls, "ioutil.ReadAll")
    /\ IF body.shape = "unreadable"
       THEN /\ log' = Append(log, LogRecord("error", "reading request body", ErrRead))
            /\ resp' = [resp EXCEPT !.Response = toAdmissionResponse(ErrRead)]
            /\ data' = [shape |-> "garbage"]
            /\ hpc' = "decode"
       ELSE /\ data' = body
            /\ hpc' = "decode"
            /\ UNCHANGED <<log, resp>>
    /\ UNCHANGED <<admitKind, body, req, respBytes, written>>
    /\ UNCHANGED <<mvars, cvars>>

\* ioutil.ReadAll(r.Body)
ReadBody ==
    /\ hpc = "read"
    /\ calls' = Append(calls, "ioutil.ReadAll")
    /\ IF body.shape = "unreadable"
       THEN /\ log' = Append(log, LogRecord("error", "reading request body", ErrRead))
            /\ resp' = [resp EXCEPT !.Response = toAdmissionResponse(ErrRead)]
            /\ hpc' = "echo"
            /\ UNCHANGED data
       ELSE /\ data' = body
            /\ hpc' = "decode"
            /\ UNCHANGED <<log, resp>>
    /\ UNCHANGED <<admitKind, body, req, respBytes, written>>
    /\ UNCHANGED <<mvars, cvars>>

\* DecodeBody with the validator still run after a decode failure
DecodeBody_StillAdmits ==
    /\ hpc = "decode"
    /\ calls' = Append(calls, "decoder.Decode")
    /\ LET d == Decode(data, req) IN
        /\ req' = d.into
        /\ IF d.err # NoErr
           THEN /\ log' = Append(log, LogRecord("error", "decoding request body", d.err))
                /\ resp' = [resp EXCEPT !.Response = toAdmissionResponse(d.err)]
                /\ hpc' = "admit"
           ELSE /\ hpc' = "admit"
                /\ UNCHANGED <<log, resp>>
    /\ UNCHANGED <<admitKind, body, data, respBytes, written>>
    /\ UNCHANGED <<mvars, cvars>>

\* a.decoder.Decode(data, nil, &req)
DecodeBody ==
    /\ hpc = "decode"
    /\ calls' = Append(calls, "decoder.Decode")
    /\ LET d == Decode(data, req) IN
        /\ req' = d.into
        /\ IF d.err # NoErr
           THEN /\ log' = Append(log, LogRecord("error", "decoding request body", d.err))
                /\ resp' = [resp EXCEPT !.Response = toAdmissionResponse(d.err)]
                /\ hpc' = "echo"
           ELSE /\ hpc' = "admit"
                /\ UNCHANGED <<log, resp>>
    /\ UNCHANGED <<admitKind, body, data, respBytes, written>>
    /\ UNCHANGED <<mvars, cvars>>

\* admit(&req)
Admit ==
    /\ hpc = "admit"
    /\ LET o == admit(admitKind, req) IN
        /\ calls' = Append(calls, "admit") \o o.calls
        /\ IF o.panicked
           THEN /\ hpc' = "panicked"
                /\ UNCHANGED <<log, resp>>
           ELSE IF o.err # NoErr
           THEN /\ log' = Append(log, LogRecord("error", "admitting admission request", o.err))
                /\ resp' = [resp EXCEPT !.Response = toAdmissionResponse(o.err)]
                /\ hpc' = "echo"
           ELSE /\ resp' = [resp EXCEPT !.Response = o.ar]
                /\ hpc' = "echo"
                /\ UNCHANGED log
    /\ UNCHANGED <<admitKind, body, data, req, respBytes, written>>
    /\ UNCHANGED <<mvars, cvars>>

\* if req.Request != nil { ... }
Echo ==
    /\ hpc = "echo"
    /\ LET e == echoIdentity(req, resp) IN
        /\ resp' = e.resp
        /\ hpc' = IF e.panicked THEN "panicked" ELSE "marshal"
    /\ UNCHANGED <<admitKind, body, data, req, respBytes, written, log, calls>>
    /\ UNCHANGED <<mvars, cvars>>

\* json.Marshal(resp): an AdmissionReview always serializes
MarshalResp ==
    /\ hpc = "marshal"
    /\ calls' = Append(calls, "json.Marshal")
    /\ respBytes' = Marshal(resp)
    /\ hpc' = "write"
    /\ UNCHANGED <<admitKind, body, data, req, resp, written, log>>
    /\ UNCHANGED <<mvars, cvars>>

\* WriteResp logging "writing response body" whether or not the write failed
WriteResp_AlwaysLogs ==
    /\ hpc = "write"
    /\ calls' = Append(calls, "w.Write")
    /\ \E ok \in BOOLEAN :
        /\ written' = IF ok THEN respBytes ELSE written
        /\ log' = Append(log, LogRecord("error", "writing response body", ErrWrite))
    /\ hpc' = "done"
    /\ UNCHANGED <<admitKind, body, data, req, resp, respBytes>>
    /\ UNCHANGED <<mvars, cvars>>

\* w.Write(respBytes): succeeds, or fails when the connection is gone
WriteResp ==
    /\ hpc = "write"
    /\ calls' = Append(calls, "w.Write")
    /\ \E ok \in BOOLEAN :
        IF ok
        THEN /\ written' = respBytes
             /\ UNCHANGED log
        ELSE /\ log' = Append(log, LogRecord("error", "writing response body", ErrWrite))
             /\ UNCHANGED written
    /\ hpc' = "done"
    /\ UNCHANGED <<admitKind, body, data, req, resp, respBytes>>
    /\ UNCHANGED <<mvars, cvars>>

\* the closure returned, or the server recovered its panic: the request's
\* locals are gone and the connection can carry the next request
Finish ==
    /\ hpc \in {"done", "panicked"}
    /\ hpc' = "idle"
    /\ admitKind' = "pod"
    /\ body' = [shape |-> "garbage"]
    /\ data' = Nil
    /\ req' = ZeroReview
    /\ resp' = ZeroReview
    /\ respBytes' = NoBytes
    /\ written' = NoBytes
    /\ log' = <<>>
    /\ calls' = <<>>
    /\ UNCHANGED <<mvars, cvars>>

serveAdmission ==
    \/ ServeHTTP
    \/ ReadBody
    \/ DecodeBody
    \/ Admit
    \/ Echo
    \/ MarshalResp
    \/ WriteResp
    \/ Finish

InitAdmission ==
    /\ hpc = "idle"
    /\ admitKind = "pod"
    /\ body = [shape |-> "garbage"]
    /\ data = Nil
    /\ req = ZeroReview
    /\ resp = ZeroReview
    /\ respBytes = NoBytes
    /\ written = NoBytes
    /\ log = <<>>
    /\ calls = <<>>

-----------------------------------------------------------------------------
(* cmd/operator/main.go *)

ExitOK == 0

ExitError == 1

ExitLoggerError == 2

logLevelDebug == "debug"

logLevelInfo == "info"

logLevelWarn == "warn"

logLevelError == "error"

validLogLevels == {logLevelDebug, logLevelInfo, logLevelWarn, logLevelError}

\* values the --log-level flag may be given
LogLevelFlags == validLogLevels \cup {"trace"}

\* setupLogger(lvl): the error it returns
setupLogger(lvl) ==
    IF lvl \in validLogLevels THEN NoErr ELSE <<"log level ", lvl, " unknown">>

\* the actors in the order of their g.Add
ActorOrder == <<"term", "admission", "operator">>

Actors == {"term", "admission", "operator"}

NoActor == "none"

ErrInit == <<"init admission resources failed">>

ErrServe == <<"listen tcp: address already in use">>

ErrRun == <<"operator loop failed">>

ErrCanceled == <<"context canceled">>

\* flag.Parse()
ParseFlags ==
    /\ mpc = "flags"
    /\ \E l \in LogLevelFlags : logLevel' = l
    /\ mpc' = "logger"
    /\ UNCHANGED <<exitCode, actor, errorsCh, termSig, cancelCloses, ctxDone,
                   interrupts, first, received, runErr>>
    /\ UNCHANGED <<hvars, cvars>>

\* logger, err := setupLogger(*logLevel)
SetupLogger ==
    /\ mpc = "logger"
    /\ IF setupLogger(logLevel) # NoErr
       THEN /\ exitCode' = ExitLoggerError
            /\ mpc' = "exited"
       ELSE /\ mpc' = "kubeconfig"
            /\ UNCHANGED exitCode
    /\ UNCHANGED <<logLevel, actor, errorsCh, termSig, cancelCloses, ctxDone,
                   interrupts, first, received, runErr>>
    /\ UNCHANGED <<hvars, cvars>>

\* clientcmd.BuildConfigFromFlags
BuildConfig ==
    /\ mpc = "kubeconfig"
    /\ \E ok \in BOOLEAN :
        IF ok
        THEN /\ mpc' = "newOperator"
             /\ UNCHANGED exitCode
        ELSE /\ exitCode' = ExitError
             /\ mpc' = "exited"
    /\ UNCHANGED <<logLevel, actor, errorsCh, termSig, cancelCloses, ctxDone,
                   interrupts, first, received, runErr>>
    /\ UNCHANGED <<hvars, cvars>>

\* operator.New
NewOperator ==
    /\ mpc = "newOperator"
    /\ \E ok \in BOOLEAN :
        IF ok
        THEN /\ mpc' = "run"
             /\ UNCHANGED exitCode
        ELSE /\ exitCode' = ExitError
             /\ mpc' = "exited"
    /\ UNCHANGED <<logLevel, actor, errorsCh, termSig, cancelCloses, ctxDone,
                   interrupts, first, received, runErr>>
    /\ UNCHANGED <<hvars, cvars>>

\* g.Run: every actor's execute is started on its own goroutine
RunStart ==
    /\ mpc = "run"
    /\ actor' = [a \in Actors |-> "running"]
    /\ mpc' = "awaitFirst"
    /\ UNCHANGED <<logLevel, exitCode, errorsCh, termSig, cancelCloses, ctxDone,
                   interrupts, first, received, runErr>>
    /\ UNCHANGED <<hvars, cvars>>

\* an actor's execute returned v: the value goes to the completion channel
Returned(a, v) ==
    /\ actor' = [actor EXCEPT ![a] = "returned"]
    /\ errorsCh' = Append(errorsCh, <<a, v>>)

\* the process is sent os.Interrupt or SIGTERM (signal.Notify(term, ...))
Signal ==
    /\ mpc \in {"awaitFirst", "interrupt", "join"}
    /\ ~termSig
    /\ termSig' = TRUE
    /\ UNCHANGED <<mpc, logLevel, exitCode, actor, errorsCh, cancelCloses, ctxDone,
                   interrupts, first, received, runErr>>
    /\ UNCHANGED <<hvars, cvars>>

\* the termination handler's execute returning an error instead of nil
TermResult_Error == ErrCanceled

\* value returned by the termination handler's execute
TermResult == NoErr

\* the termination handler returning without waiting for a signal or the close
TermExecute_NoWait ==
    /\ actor["term"] = "running"
    /\ Returned("term", TermResult)
    /\ UNCHANGED <<mpc, logLevel, exitCode, termSig, cancelCloses, ctxDone,
                   interrupts, first, received, runErr>>
    /\ UNCHANGED <<hvars, cvars>>

\* termination handler: select { case <-term: ... case <-cancel: }; return nil
TermExecute ==
    /\ actor["term"] = "running"
    /\ termSig \/ cancelCloses > 0
    /\ Returned("term", TermResult)
    /\ UNCHANGED <<mpc, logLevel, exitCode, termSig, cancelCloses, ctxDone,
                   interrupts, first, received, runErr>>
    /\ UNCHANGED <<hvars, cvars>>

\* admission server: op.InitAdmissionResources(ctx) fails, or returns the server
AdmissionInit ==
    /\ actor["admission"] = "running"
    /\ \E ok \in BOOLEAN :
        IF ok
        THEN /\ actor' = [actor EXCEPT !["admission"] = "serving"]
             /\ UNCHANGED errorsCh
        ELSE Returned("admission", ErrInit)
    /\ UNCHANGED <<mpc, logLevel, exitCode, termSig, cancelCloses, ctxDone,
                   interrupts, first, received, runErr>>
    /\ UNCHANGED <<hvars, cvars>>

\* admission server: srv.ListenAndServeTLS("", "") returns only with an error of
\* the listener; nothing in main shuts the server down
AdmissionServeFails ==
    /\ actor["admission"] = "serving"
    /\ Returned("admission", ErrServe)
    /\ UNCHANGED <<mpc, logLevel, exitCode, termSig, cancelCloses, ctxDone,
                   interrupts, first, received, runErr>>
    /\ UNCHANGED <<hvars, cvars>>

\* operator loop: op.Run(ctx) fails on its own
OperatorFails ==
    /\ actor["operator"] = "running"
    /\ Returned("operator", ErrRun)
    /\ UNCHANGED <<mpc, logLevel, exitCode, termSig, cancelCloses, ctxDone,
                   interrupts, first, received, runErr>>
    /\ UNCHANGED <<hvars, cvars>>

\* operator loop: op.Run(ctx) returns once its context is cancelled
OperatorCancelled ==
    /\ actor["operator"] = "running"
    /\ ctxDone["operator"]
    /\ \E v \in {NoErr, ErrCanceled} : Returned("operator", v)
    /\ UNCHANGED <<mpc, logLevel, exitCode, termSig, cancelCloses, ctxDone,
                   interrupts, first, received, runErr>>
    /\ UNCHANGED <<hvars, cvars>>

\* g.Run: the first value of the completion channel is the group's result
RunFirst ==
    /\ mpc = "awaitFirst"
    /\ Len(errorsCh) > received
    /\ first' = errorsCh[received + 1][1]
    /\ runErr' = errorsCh[received + 1][2]
    /\ received' = received + 1
    /\ mpc' = "interrupt"
    /\ UNCHANGED <<logLevel, exitCode, actor, errorsCh, termSig, cancelCloses, ctxDone,
                   interrupts>>
    /\ UNCHANGED <<hvars, cvars>>

\* the actors g.Run still has to interrupt
ToInterrupt == { i \in 1..Len(ActorOrder) :
                   ActorOrder[i] # first /\ interrupts[ActorOrder[i]] = <<>> }

\* the interrupt functions all closing the termination handler's channel, as
\* they would if the three `cancel` variables were one
Interrupt_SharedCancel(a, err) ==
    /\ interrupts' = [interrupts EXCEPT ![a] = Append(@, err)]
    /\ cancelCloses' = cancelCloses + 1
    /\ UNCHANGED ctxDone

\* the interrupt functions passed to g.Add: close(cancel) for the termination
\* handler, cancel() of the actor's context for the other two
Interrupt(a, err) ==
    /\ interrupts' = [interrupts EXCEPT ![a] = Append(@, err)]
    /\ IF a = "term"
       THEN /\ cancelCloses' = cancelCloses + 1
            /\ UNCHANGED ctxDone
       ELSE /\ ctxDone' = [ctxDone EXCEPT ![a] = TRUE]
            /\ UNCHANGED cancelCloses

\* RunInterrupt handing nil to the interrupts instead of the first value
RunInterrupt_DropsError ==
    /\ mpc = "interrupt"
    /\ ToInterrupt # {}
    /\ LET i == CHOOSE i \in ToInterrupt : \A j \in ToInterrupt : i <= j
       IN  /\ Interrupt(ActorOrder[i], NoErr)
           /\ mpc' = IF ToInterrupt = {i} THEN "join" ELSE "interrupt"
    /\ UNCHANGED <<logLevel, exitCode, actor, errorsCh, termSig, first, received, runErr>>
    /\ UNCHANGED <<hvars, cvars>>

\* g.Run: every other actor is interrupted with the first value, in the order
\* of the g.Add calls (the group is described as interrupting the other actors;
\* an interrupt of the actor that already returned would change none of the
\* executes below, which have returned by then)
RunInterrupt ==
    /\ mpc = "interrupt"
    /\ ToInterrupt # {}
    /\ LET i == CHOOSE i \in ToInterrupt : \A j \in ToInterrupt : i <= j
       IN  /\ Interrupt(ActorOrder[i], runErr)
           /\ mpc' = IF ToInterrupt = {i} THEN "join" ELSE "interrupt"
    /\ UNCHANGED <<logLevel, exitCode, actor, errorsCh, termSig, first, received, runErr>>
    /\ UNCHANGED <<hvars, cvars>>

\* g.Run: wait for every execute; later values are dropped
RunJoin ==
    /\ mpc = "join"
    /\ received < Len(ActorOrder)
    /\ Len(errorsCh) > received
    /\ received' = received + 1
    /\ UNCHANGED <<mpc, logLevel, exitCode, actor, errorsCh, termSig, cancelCloses, ctxDone,
                   interrupts, first, runErr>>
    /\ UNCHANGED <<hvars, cvars>>

\* RunReturn not waiting for the last execute
RunReturn_Early ==
    /\ mpc = "join"
    /\ received >= Len(ActorOrder) - 1
    /\ mpc' = "runReturned"
    /\ UNCHANGED <<logLevel, exitCode, actor, errorsCh, termSig, cancelCloses, ctxDone,
                   interrupts, first, received, runErr>>
    /\ UNCHANGED <<hvars, cvars>>

\* g.Run returns runErr
RunReturn ==
    /\ mpc = "join"
    /\ received = Len(ActorOrder)
    /\ mpc' = "runReturned"
    /\ UNCHANGED <<logLevel, exitCode, actor, errorsCh, termSig, cancelCloses, ctxDone,
                   interrupts, first, received, runErr>>
    /\ UNCHANGED <<hvars, cvars>>

\* ExitStatus with the test of the error inverted
ExitStatus_Inverted(err) == IF err = NoErr THEN ExitError ELSE ExitOK

\* exit status after g.Run: os.Exit(1) on an error, return from main otherwise
ExitStatus(err) == IF err # NoErr THEN ExitError ELSE ExitOK

\* if err := g.Run(); err != nil { os.Exit(1) }
Exit ==
    /\ mpc = "runReturned"
    /\ exitCode' = ExitStatus(runErr)
    /\ mpc' = "exited"
    /\ UNCHANGED <<logLevel, actor, errorsCh, termSig, cancelCloses, ctxDone,
                   interrupts, first, received, runErr>>
    /\ UNCHANGED <<hvars, cvars>>

main ==
    \/ ParseFlags
    \/ SetupLogger
    \/ BuildConfig
    \/ NewOperator
    \/ RunStart
    \/ Signal
    \/ TermExecute
    \/ AdmissionInit
    \/ AdmissionServeFails
    \/ OperatorFails
    \/ OperatorCancelled
    \/ RunFirst
    \/ RunInterrupt
    \/ RunJoin
    \/ RunReturn
    \/ Exit

InitMain ==
    /\ mpc = "flags"
    /\ logLevel = logLevelInfo
    /\ exitCode = ExitOK
    /\ actor = [a \in Actors |-> "idle"]
    /\ errorsCh = <<>>
    /\ termSig = FALSE
    /\ cancelCloses = 0
    /\ ctxDone = [a \in {"admission", "operator"} |-> FALSE]
    /\ interrupts = [a \in Actors |-> <<>>]
    /\ first = NoActor
    /\ received = 0
    /\ runErr = NoErr

-----------------------------------------------------------------------------
(* pkg/operator/admission.go: requests served concurrently. net/http runs the
   handler closure on one goroutine per connection; the closures share the
   AdmissionServer (logger, decoder) and the admitFn, which they only read. *)

Conns == 1..MaxConcurrent

\* the requests sent while others are in flight: one per way through the handler
ConcBodies ==
    { [shape |-> "unreadable"],
      [shape |-> "garbage"],
      [shape |-> "envelope", APIVersion |-> "admission.k8s.io/v1",
       Kind |-> "AdmissionReview", Request |-> Nil],
      [shape |-> "envelope", APIVersion |-> "admission.k8s.io/v1",
       Kind |-> "AdmissionReview",
       Request |-> [UID |-> "uid-1", Resource |-> PodMonitoringResource,
                    Object |-> [FromPod |-> <<>>, FromService |-> <<>>]]],
      [shape |-> "envelope", APIVersion |-> "admission.k8s.io/v1beta1",
       Kind |-> "AdmissionReview",
       Request |-> [UID |-> "uid-2", Resource |-> ServiceMonitoringResource,
                    Object |-> [FromPod |-> <<>>,
                                FromService |-> <<[From |-> "bad key", To |-> ""]>>]]] }

IdleConn ==
    [pc |-> "idle", admitKind |-> "pod", body |-> [shape |-> "garbage"],
     data |-> Nil, respBytes |-> NoBytes, written |-> NoBytes]

ZeroCell == [req |-> ZeroReview, resp |-> ZeroReview]

\* req and resp declared outside the returned closure: one pair for all requests
Cell_Shared(c) == 1

\* "var req, resp v1.AdmissionReview" is declared inside the closure: every
\* invocation has its own pair
Cell(c) == c

\* entry of the closure on connection c; its req and resp start as zero values
CServe(c) ==
    /\ conc[c].pc = "idle"
    /\ \E k \in {"pod", "service"}, b \in ConcBodies :
        conc' = [conc EXCEPT ![c] = [IdleConn EXCEPT !.pc = "read", !.admitKind = k,
                                                     !.body = b]]
    /\ cells' = [cells EXCEPT ![Cell(c)] = ZeroCell]
    /\ UNCHANGED <<hvars, mvars>>

CReadBody(c) ==
    /\ conc[c].pc = "read"
    /\ IF conc[c].body.shape = "unreadable"
       THEN /\ cells' = [cells EXCEPT ![Cell(c)].resp.Response = toAdmissionResponse(ErrRead)]
            /\ conc' = [conc EXCEPT ![c].pc = "echo"]
       ELSE /\ conc' = [conc EXCEPT ![c].pc = "decode", ![c].data = conc[c].body]
            /\ UNCHANGED cells
    /\ UNCHANGED <<hvars, mvars>>

CDecodeBody(c) ==
    /\ conc[c].pc = "decode"
    /\ LET d == Decode(conc[c].data, cells[Cell(c)].req) IN
        IF d.err # NoErr
        THEN /\ cells' = [cells EXCEPT ![Cell(c)].req = d.into,
                                       ![Cell(c)].resp.Response = toAdmissionResponse(d.err)]
             /\ conc' = [conc EXCEPT ![c].pc = "echo"]
        ELSE /\ cells' = [cells EXCEPT ![Cell(c)].req = d.into]
             /\ conc' = [conc EXCEPT ![c].pc = "admit"]
    /\ UNCHANGED <<hvars, mvars>>

CAdmit(c) ==
    /\ conc[c].pc = "admit"
    /\ LET o == admit(conc[c].admitKind, cells[Cell(c)].req) IN
        IF o.panicked
        THEN /\ conc' = [conc EXCEPT ![c].pc = "panicked"]
             /\ UNCHANGED cells
        ELSE /\ cells' = [cells EXCEPT ![Cell(c)].resp.Response =
                            IF o.err # NoErr THEN toAdmissionResponse(o.err) ELSE o.ar]
             /\ conc' = [conc EXCEPT ![c].pc = "echo"]
    /\ UNCHANGED <<hvars, mvars>>

CEcho(c) ==
    /\ conc[c].pc = "echo"
    /\ LET e == echoIdentity(cells[Cell(c)].req, cells[Cell(c)].resp) IN
        /\ cells' = [cells EXCEPT ![Cell(c)].resp = e.resp]
        /\ conc' = [conc EXCEPT ![c].pc = IF e.panicked THEN "panicked" ELSE "marshal"]
    /\ UNCHANGED <<hvars, mvars>>

CMarshalResp(c) ==
    /\ conc[c].pc = "marshal"
    /\ conc' = [conc EXCEPT ![c].pc = "write",
                            ![c].respBytes = Marshal(cells[Cell(c)].resp)]
    /\ UNCHANGED cells
    /\ UNCHANGED <<hvars, mvars>>

CWriteResp(c) ==
    /\ conc[c].pc = "write"
    /\ \E ok \in BOOLEAN :
        conc' = [conc EXCEPT ![c].pc = "done",
                             ![c].written = IF ok THEN conc[c].respBytes ELSE NoBytes]
    /\ UNCHANGED cells
    /\ UNCHANGED <<hvars, mvars>>

\* the closure returned or its panic was recovered; the connection is free again
CFinish(c) ==
    /\ conc[c].pc \in {"done", "panicked"}
    /\ conc' = [conc EXCEPT ![c] = IdleConn]
    /\ UNCHANGED cells
    /\ UNCHANGED <<hvars, mvars>>

serveConcurrently ==
    \E c \in Conns :
        \/ CServe(c)
        \/ CReadBody(c)
        \/ CDecodeBody(c)
        \/ CAdmit(c)
        \/ CEcho(c)
        \/ CMarshalResp(c)
        \/ CWriteResp(c)
        \/ CFinish(c)

InitConcurrent ==
    /\ conc = [c \in Conns |-> IdleConn]
    /\ cells = [c \in Conns |-> ZeroCell]

-----------------------------------------------------------------------------
(* Specifications *)

Init == InitAdmission /\ InitMain /\ InitConcurrent

\* the webhook handler serving requests
SpecAdmission == Init /\ [][serveAdmission]_vars

\* the webhook handler serving requests on several connections at once
SpecConcurrent == Init /\ [][serveConcurrently]_vars

\* the process from flag parsing to exit
SpecMain == Init /\ [][main]_vars

\* goroutines that can run do run; signals, listener errors and operator
\* failures are not bound to happen
FairMain ==
    /\ WF_vars(ParseFlags) /\ WF_vars(SetupLogger) /\ WF_vars(BuildConfig)
    /\ WF_vars(NewOperator) /\ WF_vars(RunStart)
    /\ WF_vars(TermExecute) /\ WF_vars(AdmissionInit) /\ WF_vars(OperatorCancelled)
    /\ WF_vars(RunFirst) /\ WF_vars(RunInterrupt) /\ WF_vars(RunJoin)
    /\ WF_vars(RunReturn) /\ WF_vars(Exit)

FairSpecMain == SpecMain /\ FairMain

-----------------------------------------------------------------------------
(* Properties of the admission handler (SpecAdmission) *)

Range(f) == { f[i] : i \in DOMAIN f }

\* the values of member key of a JSON object
Member(obj, key) == { m[2] : m \in { x \in Range(obj) : x[1] = key } }

\* sub occurs in s as a contiguous run
Contains(s, sub) ==
    \E i \in 0..(Len(s) - Len(sub)) : \A k \in 1..Len(sub) : s[i + k] = sub[k]

\* the closure is past the identity echo: resp is the response envelope
Responded == hpc \in {"marshal", "write", "done"}

\* the bound validator was called and returned
Validated == hpc \in {"echo", "marshal", "write", "done"} /\ "admit" \in Range(calls)

\* the resource identity the bound validator expects
Expected == IF admitKind = "pod" THEN PodMonitoringResource ELSE ServiceMonitoringResource

AllValid(mappings) == \A i \in 1..Len(mappings) : MappingError(mappings[i]) = NoErr

IsAllowed(r) == r # Nil /\ r.Allowed /\ r.Result = Nil

IsDenied(r) ==
    /\ r # Nil
    /\ ~r.Allowed
    /\ r.Result # Nil
    /\ r.Result.Status = StatusFailure
    /\ r.Result.Message # NoErr

\* C1: whenever the body was decoded into an admission envelope, the response
\* envelope carries the request's apiVersion, kind and UID unchanged, in the
\* struct and on the wire, whether the validator allowed or denied the request.
C1_EchoesIdentity ==
    (Responded /\ body.shape = "envelope") =>
        /\ resp.APIVersion = body.APIVersion
        /\ resp.Kind = body.Kind
        /\ resp.Response # Nil
        /\ body.Request # Nil => resp.Response.UID = body.Request.UID
        /\ (IsAllowed(resp.Response) \/ IsDenied(resp.Response))
        /\ hpc \in {"write", "done"} =>
            /\ Member(respBytes, "apiVersion") = {body.APIVersion}
            /\ Member(respBytes, "kind") = {body.Kind}
            /\ \A r \in Member(respBytes, "response") :
                 body.Request # Nil => Member(r, "uid") = {body.Request.UID}
            /\ Member(respBytes, "response") # {}

\* a denied request whose identity came back on the wire
C1_Witness ==
    /\ hpc = "done"
    /\ body.shape = "envelope"
    /\ IsDenied(resp.Response)
    /\ resp.Response.UID = "uid-2"
    /\ resp.APIVersion = "admission.k8s.io/v1beta1"
    /\ written = respBytes
    /\ written # NoBytes

C8_Total ==
    /\ hpc # "panicked"
    /\ Responded =>
        /\ IsAllowed(resp.Response) \/ IsDenied(resp.Response)
        /\ ~(IsAllowed(resp.Response) /\ IsDenied(resp.Response))

\* C9: when the request's resource differs from the one the validator expects,
\* the validator's error names the expected and the received identity, and
\* neither the payload is unmarshalled nor any label mapping checked.
C9_ResourceMismatch ==
    (Validated /\ body.Request.Resource # Expected) =>
        /\ IsDenied(resp.Response)
        /\ Contains(resp.Response.Result.Message, GVRString(Expected))
        /\ Contains(resp.Response.Result.Message, GVRString(body.Request.Resource))
        /\ \A i \in 1..Len(calls) :
             calls[i] \notin {"json.Unmarshal", "labelMappingRelabelConfigs(FromPod)",
                              "labelMappingRelabelConfigs(FromService)"}

\* a pod monitoring resource sent to the service validator
C9_Witness ==
    /\ Validated
    /\ admitKind = "service"
    /\ body.Request.Resource = PodMonitoringResource
    /\ body.Request.Object # Malformed
    /\ IsDenied(resp.Response)

\* C10: the service validator denies every resource with an invalid
\* service-sourced mapping, also when all pod-sourced mappings are valid, and it
\* allows only resources whose pod-sourced and service-sourced mappings are all valid.
C10_ServiceMappingsChecked ==
    (Validated /\ admitKind = "service"
        /\ body.Request.Resource = ServiceMonitoringResource
        /\ body.Request.Object # Malformed) =>
        /\ ~AllValid(body.Request.Object.FromService) => IsDenied(resp.Response)
        /\ (AllValid(body.Request.Object.FromPod)
              /\ ~AllValid(body.Request.Object.FromService)) =>
             Contains(resp.Response.Result.Message, <<"checking service label mappings">>)
        /\ IsAllowed(resp.Response) <=>
             (AllValid(body.Request.Object.FromPod)
                /\ AllValid(body.Request.Object.FromService))

\* valid pod-sourced mappings, a second service-sourced mapping that is invalid
C10_Witness ==
    /\ Validated
    /\ admitKind = "service"
    /\ body.Request.Resource = ServiceMonitoringResource
    /\ body.Request.Object # Malformed
    /\ Len(body.Request.Object.FromPod) = 2
    /\ AllValid(body.Request.Object.FromPod)
    /\ Len(body.Request.Object.FromService) = 2
    /\ MappingError(body.Request.Object.FromService[1]) = NoErr
    /\ MappingError(body.Request.Object.FromService[2]) # NoErr
    /\ IsDenied(resp.Response)

-----------------------------------------------------------------------------
(* Properties of main and the actor group (SpecMain, FairSpecMain) *)

\* g.Run has taken the first value from the completion channel
FirstTaken == mpc \in {"interrupt", "join", "runReturned"} \/ (mpc = "exited" /\ received > 0)

\* g.Run is past its interrupt loop
InterruptsDone == mpc \in {"join", "runReturned"} \/ (mpc = "exited" /\ received > 0)

\* g.Run has returned
RunReturned == mpc = "runReturned" \/ (mpc = "exited" /\ received > 0)

\* the process exited before g.Run was called
BootstrapFailed == mpc = "exited" /\ received = 0

\* the actor whose execute returned first, and the value it returned
FirstActor == errorsCh[1][1]

FirstValue == errorsCh[1][2]

\* some execute returned an error
SomeActorError == \E i \in 1..Len(errorsCh) : errorsCh[i][2] # NoErr

C2_Interrupts ==
    /\ \A a \in Actors : Len(interrupts[a]) <= 1
    /\ (\E a \in Actors : interrupts[a] # <<>>) => FirstTaken
    /\ FirstTaken =>
        /\ first = FirstActor
        /\ \A a \in Actors : interrupts[a] \in {<<>>, <<FirstValue>>}
    /\ InterruptsDone => \A a \in Actors \ {first} : interrupts[a] = <<FirstValue>>
    /\ (RunReturned /\ FirstActor = "admission" /\ FirstValue = ErrInit) =>
        /\ interrupts["term"] = <<ErrInit>>
        /\ interrupts["operator"] = <<ErrInit>>
        /\ runErr = ErrInit
        /\ \A a \in Actors : actor[a] = "returned"

\* C2: once an execute has returned, g.Run invokes the interrupt of every other
\* actor exactly once, each with the value the first execute returned; when the
\* admission server fails first with E while the other two block, the
\* termination handler and the operator loop each get one interrupt carrying E,
\* the result is E and all three executes finish.
C2_InterruptOthersOnce ==
    /\ []C2_Interrupts
    /\ (FirstTaken /\ first = "admission" /\ runErr = ErrInit) ~> RunReturned

C2_Witness ==
    /\ mpc = "runReturned"
    /\ FirstActor = "admission"
    /\ runErr = ErrInit
    /\ interrupts = [a \in Actors |-> IF a = "admission" THEN <<>> ELSE <<ErrInit>>]
    /\ ~termSig

\* C3: the result of g.Run is the value returned by the execute that returned
\* first; values returned later are dropped, so when the termination handler
\* returns nil first, the others are interrupted with nil and the result is nil
\* whatever the others return afterwards.
C3_FirstValueWins ==
    FirstTaken =>
        /\ runErr = FirstValue
        /\ first = FirstActor
        /\ FirstActor = "term" =>
            /\ runErr = NoErr
            /\ \A a \in Actors : interrupts[a] \in {<<>>, <<NoErr>>}

\* the termination handler returned nil first, both others returned errors later
C3_Witness ==
    /\ mpc = "runReturned"
    /\ FirstActor = "term"
    /\ runErr = NoErr
    /\ errorsCh[2][2] # NoErr
    /\ errorsCh[3][2] # NoErr

\* C4: g.Run has not returned while an execute is still running: when it has
\* returned, and when the process has exited after it, all three executes have
\* returned; an execute that never returns keeps g.Run from returning.
C4_RunWaitsForAll ==
    /\ RunReturned => \A a \in Actors : actor[a] = "returned"
    /\ (\E a \in Actors : actor[a] \in {"running", "serving"}) =>
          mpc \in {"awaitFirst", "interrupt", "join"}
    /\ mpc = "exited" => (\A a \in Actors : actor[a] = "idle")
                            \/ (\A a \in Actors : actor[a] = "returned")

\* g.Run returned after the operator loop failed first
C4_Witness ==
    /\ mpc = "runReturned"
    /\ FirstActor = "operator"
    /\ runErr = ErrRun
    /\ \A a \in Actors : actor[a] = "returned"

\* C5: whichever actor finishes first, every other execute eventually returns
\* and g.Run returns; stated for the cases the claim names: the admission
\* server failed first, or the HTTPS server is serving when the first execute
\* (termination handler or operator loop) has returned.
C5_SharedFate ==
    (FirstTaken /\ (first = "admission" \/ actor["admission"] = "serving")) ~> RunReturned

\* C6 as claimed: exit status 0 when no actor returned an error, non-zero when
\* any actor returned an error, in whatever order, or bootstrap failed.
C6_AnyErrorExitsNonZero ==
    mpc = "exited" => (exitCode # ExitOK <=> (BootstrapFailed \/ SomeActorError))

\* C6: the exit status is non-zero exactly when bootstrap failed or the execute
\* that returned first returned an error; it is 0 when that execute returned
\* nil, whatever the executes that returned later returned.
C6_FirstErrorDecidesExit ==
    mpc = "exited" =>
        /\ exitCode \in {ExitOK, ExitError, ExitLoggerError}
        /\ exitCode # ExitOK <=> (BootstrapFailed \/ FirstValue # NoErr)
        /\ BootstrapFailed => (exitCode = ExitLoggerError <=> logLevel \notin validLogLevels)

\* exit status 0 although two executes returned errors after the first
C6_Witness ==
    /\ mpc = "exited"
    /\ exitCode = ExitOK
    /\ received = 3
    /\ FirstValue = NoErr
    /\ SomeActorError

-----------------------------------------------------------------------------
(* Validators and decision mapping (SpecAdmission) *)

\* the request reached the bound validator's payload: the resource is the
\* expected one and the payload unmarshals
Wellformed ==
    /\ Validated
    /\ body.Request.Resource = Expected
    /\ body.Request.Object # Malformed

\* the error of the first mapping, in declaration order, that does not compile
RECURSIVE FirstError(_)
FirstError(mappings) ==
    IF mappings = <<>>
    THEN NoErr
    ELSE IF MappingError(Head(mappings)) # NoErr
         THEN MappingError(Head(mappings))
         ELSE FirstError(Tail(mappings))

\* the text behind the context that errors.Wrap put in front
Cause(message) == SubSeq(message, 3, Len(message))

\* the error records of the log
ErrorRecords == SelectSeq(log, LAMBDA rec : rec.level = "error")

\* C11: the pod validator allows every request whose resource matches, whose
\* payload unmarshals and whose pod-sourced mappings are all valid; it checks
\* only the pod-sourced mappings, whatever the service-sourced ones are.
C11_PodValidatorAllows ==
    (Wellformed /\ admitKind = "pod") =>
        /\ AllValid(body.Request.Object.FromPod) => IsAllowed(resp.Response)
        /\ IsAllowed(resp.Response) => AllValid(body.Request.Object.FromPod)
        /\ "labelMappingRelabelConfigs(FromService)" \notin Range(calls)

\* allowed by the pod validator although a service-sourced mapping is invalid
C11_Witness ==
    /\ Wellformed
    /\ admitKind = "pod"
    /\ Len(body.Request.Object.FromPod) = 2
    /\ AllValid(body.Request.Object.FromPod)
    /\ ~AllValid(body.Request.Object.FromService)
    /\ IsAllowed(resp.Response)
    /\ hpc = "done"

\* the mappings whose error the bound validator reports: the pod-sourced ones
\* when one of them is invalid, else (service validator) the service-sourced
Reported ==
    IF admitKind = "pod" \/ ~AllValid(body.Request.Object.FromPod)
    THEN body.Request.Object.FromPod
    ELSE body.Request.Object.FromService

\* C12: a resource with an invalid mapping is denied, and the message is the
\* error of the first invalid mapping in declaration order behind the
\* validator's context; the message depends on the request alone.
C12_FirstInvalidDecides ==
    (Wellformed /\ ~AllValid(Reported)) =>
        /\ IsDenied(resp.Response)
        /\ Cause(resp.Response.Result.Message) = FirstError(Reported)
        /\ \A i \in 1..Len(Reported) :
             (\A j \in 1..(i - 1) : MappingError(Reported[j]) = NoErr)
                /\ MappingError(Reported[i]) # NoErr
             => Cause(resp.Response.Result.Message) = MappingError(Reported[i])

\* two invalid mappings with different errors: the first one is reported
C12_Witness ==
    /\ Wellformed
    /\ Len(Reported) = 2
    /\ MappingError(Reported[1]) # NoErr
    /\ MappingError(Reported[2]) # NoErr
    /\ MappingError(Reported[1]) # MappingError(Reported[2])
    /\ Cause(resp.Response.Result.Message) = MappingError(Reported[1])

\* C13: every failure of the handler (body read, envelope decode, validator)
\* is answered with allowed=false, status Failure and the text of the error of
\* the stage that failed, which is the error the handler logged for it.
C13_DenialCarriesError ==
    hpc \in {"echo", "marshal", "write", "done"} =>
        /\ body.shape = "unreadable" =>
             /\ IsDenied(resp.Response)
             /\ resp.Response.Result.Message = ErrRead
        /\ body.shape = "garbage" =>
             /\ IsDenied(resp.Response)
             /\ resp.Response.Result.Message = ErrDecode
        /\ (ErrorRecords # <<>> /\ ErrorRecords[1].msg # "writing response body") =>
             /\ IsDenied(resp.Response)
             /\ resp.Response.Result.Message = ErrorRecords[1].err
             /\ resp.Response.Result.Status = "Failure"
             /\ ~resp.Response.Allowed
        /\ IsDenied(resp.Response) =>
             /\ ErrorRecords # <<>>
             /\ ErrorRecords[1].msg \in {"reading request body", "decoding request body",
                                         "admitting admission request"}

\* a validator error that came back as the denial message
C13_Witness ==
    /\ hpc = "done"
    /\ Validated
    /\ ErrorRecords # <<>>
    /\ ErrorRecords[1].msg = "admitting admission request"
    /\ resp.Response.Result.Message = ErrorRecords[1].err
    /\ written = respBytes

\* C15: the service validator checks resource, payload, pod-sourced mappings
\* and service-sourced mappings in this order and stops at the first failure:
\* with an invalid mapping on both sides the error is the pod-side one and the
\* service-sourced mappings are not evaluated.
C15_ServiceValidatorOrder ==
    (Validated /\ admitKind = "service") =>
        LET made == SelectSeq(calls, LAMBDA c : c \in
                        {"json.Unmarshal", "labelMappingRelabelConfigs(FromPod)",
                         "labelMappingRelabelConfigs(FromService)"})
            order == <<"json.Unmarshal", "labelMappingRelabelConfigs(FromPod)",
                       "labelMappingRelabelConfigs(FromService)">>
        IN  /\ made = SubSeq(order, 1, Len(made))
            /\ IsAllowed(resp.Response) => Len(made) = 3
            /\ (body.Request.Resource = Expected
                  /\ body.Request.Object # Malformed
                  /\ ~AllValid(body.Request.Object.FromPod)) =>
                 /\ Len(made) = 2
                 /\ resp.Response.Result.Message[1] = "checking pod label mappings"
                 /\ Cause(resp.Response.Result.Message)
                      = FirstError(body.Request.Object.FromPod)

\* an invalid mapping on both sides
C15_Witness ==
    /\ Wellformed
    /\ admitKind = "service"
    /\ ~AllValid(body.Request.Object.FromPod)
    /\ ~AllValid(body.Request.Object.FromService)
    /\ FirstError(body.Request.Object.FromPod) # FirstError(body.Request.Object.FromService)
    /\ resp.Response.Result.Message[1] = "checking pod label mappings"

\* the decision and the error the bound validator returns for the decoded request
AdmitOutcome == admit(admitKind, req)

\* C19: when the handler reaches the identity echo, resp.Response is set on
\* every path, so writing the UID never goes through nil: a validator that
\* returns gives a decision with a nil error or no decision with an error, and
\* the only panic is the validator's own, never the echo's.
C19_ResponseSetBeforeEcho ==
    /\ hpc \in {"echo", "marshal", "write", "done"} => resp.Response # Nil
    /\ (hpc = "admit" /\ ~AdmitOutcome.panicked) =>
          \/ AdmitOutcome.ar # Nil /\ AdmitOutcome.err = NoErr
          \/ AdmitOutcome.ar = Nil /\ AdmitOutcome.err # NoErr
    /\ hpc = "panicked" =>
          /\ calls[Len(calls)] = "admit"
          /\ req.Request = Nil

\* the echo about to write the UID into an allowed decision
C19_Witness ==
    /\ hpc = "echo"
    /\ req.Request # Nil
    /\ IsAllowed(resp.Response)
    /\ resp.Response.UID = ""
    /\ admitKind = "pod"

-----------------------------------------------------------------------------
(* Stages and log of one request (SpecAdmission) *)

\* the calls of the handler closure itself, without those of the validator
HandlerCalls ==
    SelectSeq(calls, LAMBDA c : c \in {"ioutil.ReadAll", "decoder.Decode", "admit",
                                        "json.Marshal", "w.Write"})

\* the calls a request goes through, by what its body is
StagesOf(b) ==
    IF b.shape = "unreadable"
    THEN <<"ioutil.ReadAll", "json.Marshal", "w.Write">>
    ELSE IF b.shape = "garbage"
    THEN <<"ioutil.ReadAll", "decoder.Decode", "json.Marshal", "w.Write">>
    ELSE IF b.Request = Nil
    THEN <<"ioutil.ReadAll", "decoder.Decode", "admit">>
    ELSE <<"ioutil.ReadAll", "decoder.Decode", "admit", "json.Marshal", "w.Write">>

\* the stage a stage may be followed by
StageEdges ==
    { <<"idle", "read">>, <<"read", "decode">>, <<"read", "echo">>,
      <<"decode", "admit">>, <<"decode", "echo">>, <<"admit", "echo">>,
      <<"admit", "panicked">>, <<"echo", "marshal">>, <<"marshal", "write">>,
      <<"write", "done">>, <<"done", "idle">>, <<"panicked", "idle">> }

C14_Stages ==
    hpc # "idle" =>
        /\ HandlerCalls = SubSeq(StagesOf(body), 1, Len(HandlerCalls))
        /\ hpc = "done" => HandlerCalls = StagesOf(body)
        /\ hpc = "decode" => HandlerCalls = <<"ioutil.ReadAll">> /\ body.shape # "unreadable"
        /\ hpc = "admit" => HandlerCalls = <<"ioutil.ReadAll", "decoder.Decode">>
                              /\ body.shape = "envelope"
        /\ hpc = "done" => (IsAllowed(resp.Response) \/ IsDenied(resp.Response))

C14_Step ==
    hpc' # hpc =>
        /\ <<hpc, hpc'>> \in StageEdges
        /\ (hpc = "read" /\ hpc' = "echo") <=> (hpc = "read" /\ body.shape = "unreadable")
        /\ (hpc = "decode" /\ hpc' = "echo") <=> (hpc = "decode" /\ body.shape = "garbage")
        /\ hpc \notin {"idle", "done", "panicked"} => Len(calls') <= Len(calls) + 4

\* C14: per request the stages run in the order read, decode, validate, echo,
\* serialize, write, each at most once: the decoder only after a successful
\* read, the validator only after a successful decode, no stage is retried,
\* and the response is serialized and written exactly once, allowed or denied.
C14_StageOrder == []C14_Stages /\ [][C14_Step]_vars

\* a request denied at the read, serialized and written once
C14_Witness ==
    /\ hpc = "done"
    /\ body.shape = "unreadable"
    /\ HandlerCalls = <<"ioutil.ReadAll", "json.Marshal", "w.Write">>
    /\ IsDenied(resp.Response)

\* the records of the log with one of the given messages
Records(msgs) == SelectSeq(log, LAMBDA rec : rec.msg \in msgs)

StageFailures ==
    Records({"reading request body", "decoding request body", "admitting admission request"})

OutputFailures == Records({"encoding response body", "writing response body"})

C16_Log ==
    hpc # "idle" =>
        /\ Len(Records({"webhook called"})) = 1
        /\ log[1] = LogRecord("debug", "webhook called", NoErr)
        /\ Len(log) = 1 + Len(StageFailures) + Len(OutputFailures)
        /\ Len(StageFailures) <= 1
        /\ Len(OutputFailures) <= 1
        /\ hpc \in {"echo", "marshal", "write", "done"} =>
             (Len(StageFailures) = 1 <=> IsDenied(resp.Response))
        /\ hpc = "done" => (Len(OutputFailures) = 1 <=> written = NoBytes)
        /\ (hpc = "done" /\ IsAllowed(resp.Response) /\ written # NoBytes) => Len(log) = 1

C16_Frame ==
    /\ mvars' = mvars
    /\ (hpc # "idle" /\ hpc' # "idle") =>
        /\ body' = body
        /\ admitKind' = admitKind
        /\ Len(log') >= Len(log)
        /\ SubSeq(log', 1, Len(log)) = log
        /\ Len(log') <= Len(log) + 1

\* C16: a request writes one entry record and one error record per failure:
\* at most one for read/decode/validate and at most one for serialize/write,
\* none when it is allowed and written; the handler changes nothing but the
\* log and the response it builds.
C16_LogPerRequest == []C16_Log /\ [][C16_Frame]_vars

\* a denied request whose write failed too: entry record and two error records
C16_Witness ==
    /\ hpc = "done"
    /\ Len(log) = 3
    /\ Len(StageFailures) = 1
    /\ Len(OutputFailures) = 1
    /\ written = NoBytes

-----------------------------------------------------------------------------
(* Interrupts of the actor group (SpecMain) *)

\* C18: the termination handler's cancel channel is closed at most once (its
\* interrupt is not invoked twice, and no other interrupt closes it), and its
\* execute returns nil both after a signal and after the close.
C18_CancelClosedOnce ==
    /\ cancelCloses <= 1
    /\ Len(interrupts["term"]) <= 1
    /\ cancelCloses = Len(interrupts["term"])
    /\ \A i \in 1..Len(errorsCh) : errorsCh[i][1] = "term" => errorsCh[i][2] = NoErr
    /\ actor["term"] = "returned" => termSig \/ cancelCloses = 1

\* the termination handler returned after the close, without any signal
C18_Witness ==
    /\ actor["term"] = "returned"
    /\ ~termSig
    /\ cancelCloses = 1
    /\ interrupts["term"] = <<ErrRun>>
    /\ \E i \in 1..Len(errorsCh) : errorsCh[i] = <<"term", NoErr>>

\* C20: no interrupt is invoked while all three executes are running: the
\* cancel channel is closed and the contexts are cancelled only after g.Run has
\* taken the value of an execute that returned, so the operator loop's context
\* is cancelled only after a termination signal, a failure of the admission
\* server or the loop's own exit.
C20_NoSpuriousInterrupt ==
    /\ ((\E a \in Actors : interrupts[a] # <<>>)
          \/ cancelCloses > 0 \/ ctxDone["admission"] \/ ctxDone["operator"]) =>
        /\ FirstTaken
        /\ actor[FirstActor] = "returned"
    /\ (\A a \in Actors : actor[a] \in {"idle", "running", "serving"}) =>
        /\ cancelCloses = 0
        /\ ~ctxDone["admission"]
        /\ ~ctxDone["operator"]
        /\ \A a \in Actors : interrupts[a] = <<>>
    /\ ctxDone["operator"] =>
        \/ FirstActor = "term" /\ termSig
        \/ FirstActor = "admission" /\ FirstValue \in {ErrInit, ErrServe}
        \/ FirstActor = "operator"

\* the operator loop still running, its context cancelled after the admission
\* server failed
C20_Witness ==
    /\ ctxDone["operator"]
    /\ actor["operator"] = "running"
    /\ FirstActor = "admission"
    /\ ~termSig

-----------------------------------------------------------------------------
(* Concurrent requests (SpecConcurrent) *)

\* what the handler does with a request served alone: the stages of the
\* closure one after the other on fresh req and resp
Alone(k, b) ==
    IF b.shape = "unreadable"
    THEN [panicked |-> FALSE,
          resp |-> [ZeroReview EXCEPT !.Response = toAdmissionResponse(ErrRead)]]
    ELSE LET d == Decode(b, ZeroReview) IN
    IF d.err # NoErr
    THEN [panicked |-> FALSE,
          resp |-> [ZeroReview EXCEPT !.Response = toAdmissionResponse(d.err)]]
    ELSE LET o == admit(k, d.into) IN
    IF o.panicked
    THEN [panicked |-> TRUE, resp |-> ZeroReview]
    ELSE echoIdentity(d.into,
            [ZeroReview EXCEPT !.Response =
                IF o.err # NoErr THEN toAdmissionResponse(o.err) ELSE o.ar])

\* C17: under every interleaving of the handler steps of the requests in
\* flight, each request is answered (decision, message, echoed apiVersion,
\* kind and UID) as it is when served alone, and panics only if it does alone.
C17_RequestsIndependent ==
    \A c \in Conns :
        LET r == conc[c]
            alone == Alone(r.admitKind, r.body)
        IN  /\ r.pc = "marshal" => cells[c].resp = alone.resp
            /\ r.pc \in {"write", "done"} => r.respBytes = Marshal(alone.resp)
            /\ r.pc = "done" => r.written \in {NoBytes, Marshal(alone.resp)}
            /\ r.pc = "panicked" => alone.panicked
            /\ r.pc \in {"echo", "marshal", "write", "done"} => ~alone.panicked

\* a request answered with its own UID while another, different request is
\* between decode and echo
C17_Witness ==
    \E c, d \in Conns :
        /\ c # d
        /\ conc[c].pc = "done"
        /\ conc[c].body.shape = "envelope"
        /\ conc[c].body.Request # Nil
        /\ conc[c].written # NoBytes
        /\ conc[d].pc \in {"admit", "echo"}
        /\ conc[d].body.shape = "envelope"
        /\ conc[d].body.Request # Nil
        /\ conc[d].body.Request.UID # conc[c].body.Request.UID

=============================================================================
